---- MODULE Spec2Model ----
(***************************************************************************)
(* Model of the ChatApp component of src/app/page.tsx: the identity        *)
(* session, the thread-list and message-log subscriptions, thread          *)
(* creation and deletion, and the send pipeline (handleSendMessage).       *)
(*                                                                         *)
(* React state is modelled as rendered atomically with the update that     *)
(* sets it: an event handler sees the state of the latest render when it   *)
(* is invoked, and keeps the values it captured then across its awaits.    *)
(* Every await is a separate step, so other events interleave there.       *)
(* A store write commits, or is rejected, at the step that resolves its    *)
(* promise.  Texts are sequences of tokens; <<>> is the empty string.      *)
(***************************************************************************)
EXTENDS Integers, Sequences, FiniteSets, TLC

\* ---------------------------------------------------------------- bounds
MaxChats == 2        \* thread ids the store can hand out
MaxSends == 1        \* accepted sends per behaviour of Spec
MaxRacingSends == 2  \* accepted sends per behaviour of SpecRace
MaxDeletes == 1      \* handleDeleteChat invocations per behaviour
MaxFailures == 1     \* rejected store writes per behaviour

VARIABLES
  authPc,        \* position of the authentication effect's callbacks
  user,          \* user !== null
  isAuthReady,
  chats,         \* local thread cache (state `chats`)
  activeChatId,  \* 0 is null
  messages,      \* local message cache (state `messages`)
  input,
  isLoading,
  storeChats,    \* the store's thread collection, createdAt descending
  storeMsgs,     \* the store's message log of every thread path, timestamp ascending
  nextChatId,    \* next document id the store generates for a thread
  chatsDirty,    \* a snapshot of the thread-list subscription is pending
  msgsDirty,     \* a snapshot of the message subscription is pending
  msgSubs,       \* threads whose message log has a listener attached
  creating,      \* handleNewChat invocations awaiting addDoc
  deletes,       \* handleDeleteChat invocations awaiting deleteDoc
  deletesStarted,
  sends,         \* handleSendMessage invocations that passed the guard; text is the
                 \* input the send was called with and prior the persisted log of
                 \* the selected thread at that moment
  failures,      \* store writes rejected so far
  lastSend       \* outcome of the latest handleSendMessage call

vars == <<authPc, user, isAuthReady, chats, activeChatId, messages, input, isLoading,
          storeChats, storeMsgs, nextChatId, chatsDirty, msgsDirty, msgSubs, creating,
          deletes, deletesStarted, sends, failures, lastSend>>

authVars == <<authPc, user, isAuthReady>>
storeVars == <<storeChats, storeMsgs, nextChatId>>

\* ---------------------------------------------------------------- texts
Space == " "
\* the texts the user can type into the input box
Texts == { <<Space>>, <<Space, "h", Space>> }

RECURSIVE TrimStart(_)
TrimStart(t) == IF t # <<>> /\ Head(t) = Space THEN TrimStart(Tail(t)) ELSE t

RECURSIVE TrimEnd(_)
TrimEnd(t) ==
  IF t # <<>> /\ t[Len(t)] = Space THEN TrimEnd(SubSeq(t, 1, Len(t) - 1)) ELSE t

\* String.prototype.trim
Trim(t) == TrimEnd(TrimStart(t))

NoChat == 0
ChatIds == 1..MaxChats
NewChatTitle == "New Chat"

FallbackText == <<"Sorry, I couldn't generate a response.">>
ErrorPrefix == "Error: "


\* ------------------------------------------------- completion responses
\* An optional JSON field is <<>> when it is missing and <<v>> when it is v.
TextPart(t) == [text |-> t]
OneCandidate(parts) == << << [content |-> << [parts |-> parts] >>] >> >>
Body(c) == [candidates |-> c]

\* what fetch() and response.json() of one completion request can produce
HelloResponse ==
  [kind |-> "ok", body |-> Body(OneCandidate(<< <<TextPart(<< <<"Hello">> >>)>> >>))]
EmptyTextResponse ==
  [kind |-> "ok", body |-> Body(OneCandidate(<< <<TextPart(<< <<>> >>)>> >>))]
NoTextResponse ==
  [kind |-> "ok", body |-> Body(OneCandidate(<< <<TextPart(<<>>)>> >>))]
EmptyPartsResponse == [kind |-> "ok", body |-> Body(OneCandidate(<< <<>> >>))]
NoCandidatesResponse == [kind |-> "ok", body |-> Body(<<>>)]
NetworkError == [kind |-> "network", body |-> Body(<<>>)]
Status500 == [kind |-> "status500", body |-> Body(<<>>)]

Responses == { NetworkError, Status500, HelloResponse, EmptyTextResponse, NoTextResponse,
               EmptyPartsResponse, NoCandidatesResponse }

\* the responses drawn when sends race each other
RacingResponses == { HelloResponse }

\* mutant of ModelResponse: the text is taken only when a second candidate exists
ModelResponseSecondCandidate(result) ==
  IF /\ result.candidates # <<>>
     /\ Len(result.candidates[1]) > 1
     /\ result.candidates[1][1].content # <<>>
     /\ result.candidates[1][1].content[1].parts # <<>>
     /\ Len(result.candidates[1][1].content[1].parts[1]) > 0
  THEN result.candidates[1][1].content[1].parts[1][1].text
  ELSE <<FallbackText>>

\* lines 252-257: the text of the first part of the first candidate, or the
\* fallback; the result is optional, <<>> being JavaScript's undefined
ModelResponse(result) ==
  IF /\ result.candidates # <<>>
     /\ Len(result.candidates[1]) > 0
     /\ result.candidates[1][1].content # <<>>
     /\ result.candidates[1][1].content[1].parts # <<>>
     /\ Len(result.candidates[1][1].content[1].parts[1]) > 0
  THEN result.candidates[1][1].content[1].parts[1][1].text
  ELSE <<FallbackText>>

\* error.message of what the try block of handleSendMessage can throw
NetworkErrorMsg == <<"Failed to fetch">>
StatusErrorMsg == <<"API call failed with status: ", "500">>
InvalidDataMsg == <<"Unsupported field value: undefined">>
StoreErrorMsg == <<"Missing or insufficient permissions.">>

\* line 270
ErrorText(msg) == <<ErrorPrefix>> \o msg

Msg(role, text, sid) == [role |-> role, text |-> text, sid |-> sid]

\* lines 230-234: role and text of the cached messages, then the new user message
RECURSIVE RoleText(_)
RoleText(ms) ==
  IF ms = <<>> THEN <<>>
  ELSE <<[role |-> Head(ms).role, text |-> Head(ms).text]>> \o RoleText(Tail(ms))

ChatHistory(cached, userInput) ==
  RoleText(cached) \o <<[role |-> "user", text |-> userInput]>>


\* --------------------------------------------------------------- helpers
\* line 203: chats.filter(c => c.id !== chatId)
RECURSIVE RemoveChat(_, _)
RemoveChat(list, chatId) ==
  IF list = <<>> THEN <<>>
  ELSE IF Head(list).id = chatId THEN RemoveChat(Tail(list), chatId)
  ELSE <<Head(list)>> \o RemoveChat(Tail(list), chatId)

\* a store write may be rejected while the failure budget lasts
CanFail == failures < MaxFailures

\* lines 147-169: the thread-list subscription exists while user && isAuthReady;
\* the effect re-subscribes, and so receives a fresh first snapshot, whenever
\* activeChatId changes; the store pushes a snapshot whenever the collection changes
FetchChatsEffect(newActive, storeChanged) ==
  chatsDirty' = (chatsDirty \/ storeChanged \/ newActive # activeChatId)

\* mutant of Resubscribe: the effect has no cleanup, the old listener stays attached
ResubscribeWithoutCleanup(newActive) ==
  IF newActive = activeChatId THEN msgSubs
  ELSE msgSubs \cup ({newActive} \ {NoChat})

\* lines 173-189, the listeners after the effect ran for a new activeChatId: the
\* cleanup of the previous run (line 189) detaches the old listener, then
\* onSnapshot (line 181) attaches one to the new thread's log, if there is one
Resubscribe(newActive) ==
  IF newActive = activeChatId THEN msgSubs
  ELSE (msgSubs \ {activeChatId}) \cup ({newActive} \ {NoChat})

\* lines 172-190: the message subscription follows activeChatId; the cache is
\* cleared only when the selection becomes null
FetchMessagesEffect(newActive, logChanged) ==
  /\ messages' = IF newActive = NoChat THEN <<>> ELSE messages
  /\ msgsDirty' = IF newActive # activeChatId THEN newActive # NoChat
                  ELSE msgsDirty \/ (logChanged /\ newActive # NoChat)
  /\ msgSubs' = Resubscribe(newActive)

\* setActiveChatId(id) and the two effects that depend on activeChatId
SetActiveChatId(newActive, storeChanged) ==
  /\ activeChatId' = newActive
  /\ FetchChatsEffect(newActive, storeChanged)
  /\ FetchMessagesEffect(newActive, FALSE)

\* ------------------------------------------------------------------ Init
Init ==
  /\ authPc = "start"
  /\ user = FALSE
  /\ isAuthReady = FALSE
  /\ chats = <<>>
  /\ activeChatId = NoChat
  /\ messages = <<>>
  /\ input = <<>>
  /\ isLoading = FALSE
  /\ storeChats = <<>>
  /\ storeMsgs = [c \in ChatIds |-> <<>>]
  /\ nextChatId = 1
  /\ chatsDirty = FALSE
  /\ msgsDirty = FALSE
  /\ msgSubs = {}
  /\ creating = 0
  /\ deletes = {}
  /\ deletesStarted = 0
  /\ sends = <<>>
  /\ failures = 0
  /\ lastSend = "none"

\* --------------------------------------------------- authentication effect
\* lines 116-123, first call of the listener: a returning session, or none
AuthStateChanged ==
  /\ authPc = "start"
  /\ \/ /\ user' = TRUE
        /\ isAuthReady' = TRUE
        /\ authPc' = "resolved"
        /\ chatsDirty' = TRUE
     \/ /\ authPc' = "signingIn"
        /\ UNCHANGED <<user, isAuthReady, chatsDirty>>
  /\ UNCHANGED <<chats, activeChatId, messages, input, isLoading, storeVars, msgsDirty, msgSubs,
                 creating, deletes, deletesStarted, sends, failures, lastSend>>

\* line 120: signInAnonymously settles; on success the listener is called again
\* with the new user and the first call resumes, in either order
SignInSettled ==
  /\ authPc = "signingIn"
  /\ \/ authPc' = "signedIn"
     \/ authPc' = "failed"
  /\ UNCHANGED <<user, isAuthReady, chats, activeChatId, messages, input, isLoading,
                 storeVars, chatsDirty, msgsDirty, msgSubs, creating, deletes, deletesStarted,
                 sends, failures, lastSend>>

\* line 122: the first call of the listener resumes after the await
SignInResume ==
  /\ authPc \in {"signedIn", "notified"}
  /\ isAuthReady' = TRUE
  /\ authPc' = IF authPc = "signedIn" THEN "resumed" ELSE "resolved"
  /\ chatsDirty' = (chatsDirty \/ (user /\ ~isAuthReady))
  /\ UNCHANGED <<user, chats, activeChatId, messages, input, isLoading, storeVars,
                 msgsDirty, msgSubs, creating, deletes, deletesStarted, sends, failures, lastSend>>

\* lines 117-118 and 122: the listener is called with the signed-in user
AuthUserNotified ==
  /\ authPc \in {"signedIn", "resumed"}
  /\ user' = TRUE
  /\ isAuthReady' = TRUE
  /\ authPc' = IF authPc = "signedIn" THEN "notified" ELSE "resolved"
  /\ chatsDirty' = TRUE
  /\ UNCHANGED <<chats, activeChatId, messages, input, isLoading, storeVars, msgsDirty, msgSubs,
                 creating, deletes, deletesStarted, sends, failures, lastSend>>

\* ------------------------------------------------------------ handleNewChat
\* mutant of HandleNewChat: nothing is created while the pipeline is busy
HandleNewChatWhenIdle ==
  IF ~user \/ isLoading
  THEN UNCHANGED <<isLoading, creating>>
  ELSE /\ isLoading' = TRUE
       /\ creating' = creating + 1

\* mutant of HandleNewChat: the user is not tested
HandleNewChatNoUserTest ==
  /\ isLoading' = TRUE
  /\ creating' = creating + 1

\* lines 127-136 up to the await: returns at once without a user
HandleNewChat ==
  IF ~user
  THEN UNCHANGED <<isLoading, creating>>
  ELSE /\ isLoading' = TRUE
       /\ creating' = creating + 1

\* the New Chat button (line 289) is rendered once isAuthReady and disabled while isLoading
NewChatClick ==
  /\ isAuthReady
  /\ ~isLoading
  /\ nextChatId + creating <= MaxChats
  /\ HandleNewChat
  /\ UNCHANGED <<authVars, chats, activeChatId, messages, input, storeVars, chatsDirty,
                 msgsDirty, msgSubs, deletes, deletesStarted, sends, failures, lastSend>>

\* mutant of NewChatSettled: a second thread is not created, the existing one is
\* selected instead
NewChatSettledDeduplicated ==
  /\ creating > 0
  /\ creating' = creating - 1
  /\ isLoading' = FALSE
  /\ \/ /\ storeChats = <<>>
        /\ storeChats' = <<[id |-> nextChatId, title |-> NewChatTitle]>>
        /\ nextChatId' = nextChatId + 1
        /\ SetActiveChatId(nextChatId, TRUE)
        /\ UNCHANGED failures
     \/ /\ storeChats # <<>>
        /\ SetActiveChatId(storeChats[1].id, FALSE)
        /\ UNCHANGED <<storeChats, nextChatId, failures>>
     \/ /\ CanFail
        /\ failures' = failures + 1
        /\ UNCHANGED <<storeChats, nextChatId, activeChatId, messages, chatsDirty,
                       msgsDirty, msgSubs>>
  /\ UNCHANGED <<authVars, chats, input, storeMsgs, deletes, deletesStarted, sends,
                 lastSend>>

\* lines 136-142: addDoc settles; the new thread is the most recent one
NewChatSettled ==
  /\ creating > 0
  /\ creating' = creating - 1
  /\ isLoading' = FALSE
  /\ \/ /\ storeChats' = <<[id |-> nextChatId, title |-> NewChatTitle]>> \o storeChats
        /\ nextChatId' = nextChatId + 1
        /\ SetActiveChatId(nextChatId, TRUE)
        /\ UNCHANGED failures
     \/ /\ CanFail
        /\ failures' = failures + 1
        /\ UNCHANGED <<storeChats, nextChatId, activeChatId, messages, chatsDirty,
                       msgsDirty, msgSubs>>
  /\ UNCHANGED <<authVars, chats, input, storeMsgs, deletes, deletesStarted, sends,
                 lastSend>>

\* ------------------------------------------------- thread-list subscription
\* mutant of SetChats: the threads of earlier snapshots are kept
SetChatsMerged(fetchedChats) ==
  chats' = fetchedChats \o
             SelectSeq(chats, LAMBDA c : \A i \in 1..Len(fetchedChats) : fetchedChats[i] # c)

\* line 158
SetChats(fetchedChats) == chats' = fetchedChats

\* mutant of SelectsFirst: a non-empty snapshot always selects its first thread
SelectsFirstAlways(fetchedChats) == Len(fetchedChats) > 0

\* line 160
SelectsFirst(fetchedChats) == activeChatId = NoChat /\ Len(fetchedChats) > 0

\* lines 153-166: a snapshot of the thread collection is delivered
ChatsSnapshot ==
  /\ user /\ isAuthReady
  /\ chatsDirty
  /\ Len(storeChats) = 0 => nextChatId + creating <= MaxChats
  /\ SetChats(storeChats)
  /\ IF SelectsFirst(storeChats)
     THEN /\ activeChatId' = storeChats[1].id
          /\ chatsDirty' = TRUE
          /\ FetchMessagesEffect(storeChats[1].id, FALSE)
          /\ UNCHANGED <<isLoading, creating>>
     ELSE /\ chatsDirty' = FALSE
          /\ UNCHANGED <<activeChatId, messages, msgsDirty, msgSubs>>
          /\ IF Len(storeChats) = 0
             THEN HandleNewChat
             ELSE UNCHANGED <<isLoading, creating>>
  /\ UNCHANGED <<authVars, input, storeVars, deletes, deletesStarted, sends, failures,
                 lastSend>>

\* line 301: a thread of the sidebar is clicked
SelectChat ==
  /\ isAuthReady
  /\ \E i \in 1..Len(chats) :
       /\ chats[i].id # activeChatId
       /\ SetActiveChatId(chats[i].id, FALSE)
  /\ UNCHANGED <<authVars, chats, input, isLoading, storeVars, creating, deletes,
                 deletesStarted, sends, failures, lastSend>>

\* --------------------------------------------------- message subscription
\* lines 181-187: a snapshot of the selected thread's log is delivered
MessagesSnapshot ==
  /\ user
  /\ msgsDirty
  /\ \E c \in msgSubs : messages' = storeMsgs[c]
  /\ msgsDirty' = FALSE
  /\ UNCHANGED msgSubs
  /\ UNCHANGED <<authVars, chats, activeChatId, input, isLoading, storeVars, chatsDirty,
                 creating, deletes, deletesStarted, sends, failures, lastSend>>


\* --------------------------------------------------------- handleDeleteChat
\* lines 194-200 up to the await; the closure keeps the activeChatId and chats
\* of the render in which the button (line 308) was clicked
HandleDeleteChat ==
  /\ isAuthReady
  /\ deletesStarted < MaxDeletes
  /\ \E i \in 1..Len(chats) :
       IF ~user
       THEN UNCHANGED <<deletes, deletesStarted>>
       ELSE /\ deletesStarted' = deletesStarted + 1
            /\ deletes' = deletes \cup
                 {[n |-> deletesStarted + 1, chatId |-> chats[i].id,
                   activeChatId |-> activeChatId, chats |-> chats]}
  /\ UNCHANGED <<authVars, chats, activeChatId, messages, input, isLoading, storeVars,
                 chatsDirty, msgsDirty, msgSubs, creating, sends, failures, lastSend>>

\* lines 202-205: the selection the handler sets after deleteDoc resolved
SelectionAfterDelete(d) ==
  IF d.activeChatId = d.chatId
  THEN IF Len(RemoveChat(d.chats, d.chatId)) > 0
       THEN RemoveChat(d.chats, d.chatId)[1].id
       ELSE NoChat
  ELSE activeChatId

\* lines 200-208: deleteDoc settles
DeleteSettled(d) ==
  /\ deletes' = deletes \ {d}
  /\ \/ /\ storeChats' = RemoveChat(storeChats, d.chatId)
        /\ SetActiveChatId(SelectionAfterDelete(d), storeChats' # storeChats)
        /\ UNCHANGED failures
     \/ /\ CanFail
        /\ failures' = failures + 1
        /\ UNCHANGED <<storeChats, activeChatId, messages, chatsDirty, msgsDirty, msgSubs>>
  /\ UNCHANGED <<authVars, chats, input, isLoading, storeMsgs, nextChatId, creating,
                 deletesStarted, sends, lastSend>>

\* ----------------------------------------------------------------- input
\* lines 440 and 445: the textarea is disabled while isLoading
SetInput ==
  /\ isAuthReady
  /\ ~isLoading
  /\ \E t \in Texts : input' = t
  /\ input' # input
  /\ UNCHANGED <<authVars, chats, activeChatId, messages, isLoading, storeVars, chatsDirty,
                 msgsDirty, msgSubs, creating, deletes, deletesStarted, sends, failures, lastSend>>

\* -------------------------------------------------------- handleSendMessage
\* mutant of SendRejected: the input is tested without trim()
SendRejectedUntrimmed ==
  input = <<>> \/ ~user \/ activeChatId = NoChat \/ isLoading

\* line 212
SendRejected ==
  Trim(input) = <<>> \/ ~user \/ activeChatId = NoChat \/ isLoading

InFlight(s) == s.pc \in {"addUser", "fetch", "addModel", "addError"}

\* lines 211-226 up to the first await
HandleSendMessage(limit) ==
  /\ isAuthReady
  /\ IF SendRejected
     THEN /\ lastSend' = "rejected"
          /\ UNCHANGED <<input, isLoading, sends>>
     ELSE /\ Len(sends) < limit
          /\ lastSend' = "accepted"
          /\ input' = <<>>
          /\ isLoading' = TRUE
          /\ sends' = Append(sends,
               [pc |-> "addUser", chat |-> activeChatId, text |-> input,
                userInput |-> Trim(input),
                messages |-> messages, payload |-> <<>>, resp |-> <<>>, out |-> <<>>,
                prior |-> storeMsgs[activeChatId]])
  /\ UNCHANGED <<authVars, chats, activeChatId, messages, storeVars, chatsDirty, msgsDirty, msgSubs,
                 creating, deletes, deletesStarted, failures>>

\* mutant of AddMessage: the path is built from the selection at the time of the write
AddMessageToSelected(s, m) ==
  /\ storeMsgs' = [storeMsgs EXCEPT
                     ![IF activeChatId = NoChat THEN sends[s].chat ELSE activeChatId] =
                       Append(@, m)]
  /\ msgsDirty' = (msgsDirty \/ (user /\ activeChatId # NoChat))
  /\ UNCHANGED msgSubs

\* addDoc(collection(db, messagesCollectionPath), m) committed by the store; the
\* path is the one built at line 218 from the selection at call time
AddMessage(s, m) ==
  /\ storeMsgs' = [storeMsgs EXCEPT ![sends[s].chat] = Append(@, m)]
  /\ msgsDirty' = (msgsDirty \/ (user /\ sends[s].chat \in msgSubs))
  /\ UNCHANGED msgSubs

\* mutant of UserMessageSettled: the request is issued although the write was rejected
UserMessageSettledUnchecked(s) ==
  /\ sends[s].pc = "addUser"
  /\ sends' = [sends EXCEPT ![s].pc = "fetch",
                 ![s].payload = ChatHistory(sends[s].messages, sends[s].userInput)]
  /\ \/ /\ AddMessage(s, Msg("user", sends[s].userInput, s))
        /\ UNCHANGED failures
     \/ /\ CanFail
        /\ failures' = failures + 1
        /\ UNCHANGED <<storeMsgs, msgsDirty, msgSubs>>
  /\ UNCHANGED <<authVars, chats, activeChatId, messages, input, isLoading, storeChats,
                 nextChatId, chatsDirty, creating, deletes, deletesStarted, lastSend>>

\* line 226 settles; on success lines 229-244 build the payload and issue the request
UserMessageSettled(s) ==
  /\ sends[s].pc = "addUser"
  /\ \/ /\ AddMessage(s, Msg("user", sends[s].userInput, s))
        /\ sends' = [sends EXCEPT ![s].pc = "fetch",
                       ![s].payload = ChatHistory(sends[s].messages, sends[s].userInput)]
        /\ UNCHANGED failures
     \/ /\ CanFail
        /\ failures' = failures + 1
        /\ sends' = [sends EXCEPT ![s].pc = "rejected"]
        /\ UNCHANGED <<storeMsgs, msgsDirty, msgSubs>>
  /\ UNCHANGED <<authVars, chats, activeChatId, messages, input, isLoading, storeChats,
                 nextChatId, chatsDirty, creating, deletes, deletesStarted, lastSend>>

\* mutant of AfterResponse: response.ok is not tested
AfterResponseUnchecked(r) ==
  IF r.kind = "network"
  THEN [pc |-> "addError", out |-> ErrorText(NetworkErrorMsg)]
  ELSE IF ModelResponse(r.body) = <<>>
       THEN [pc |-> "addError", out |-> ErrorText(InvalidDataMsg)]
       ELSE [pc |-> "addModel", out |-> ModelResponse(r.body)[1]]

\* lines 240-265 and 267-274: what the handler does with the response, up to the
\* addDoc it awaits next
AfterResponse(r) ==
  CASE r.kind = "network" -> [pc |-> "addError", out |-> ErrorText(NetworkErrorMsg)]
    [] r.kind = "status500" -> [pc |-> "addError", out |-> ErrorText(StatusErrorMsg)]
    [] OTHER ->
         IF ModelResponse(r.body) = <<>>
         THEN [pc |-> "addError", out |-> ErrorText(InvalidDataMsg)]
         ELSE [pc |-> "addModel", out |-> ModelResponse(r.body)[1]]

\* fetch (and response.json) settles
ResponseArrived(s, responses) ==
  /\ sends[s].pc = "fetch"
  /\ \E r \in responses :
       sends' = [sends EXCEPT ![s].pc = AfterResponse(r).pc,
                              ![s].out = AfterResponse(r).out,
                              ![s].resp = <<r>>]
  /\ UNCHANGED <<authVars, chats, activeChatId, messages, input, isLoading, storeVars,
                 chatsDirty, msgsDirty, msgSubs, creating, deletes, deletesStarted, failures,
                 lastSend>>

\* line 265 settles: done (finally, line 276), or the catch block writes the error
ModelMessageSettled(s) ==
  /\ sends[s].pc = "addModel"
  /\ \/ /\ AddMessage(s, Msg("model", sends[s].out, s))
        /\ sends' = [sends EXCEPT ![s].pc = "done"]
        /\ isLoading' = FALSE
        /\ UNCHANGED failures
     \/ /\ CanFail
        /\ failures' = failures + 1
        /\ sends' = [sends EXCEPT ![s].pc = "addError",
                                  ![s].out = ErrorText(StoreErrorMsg)]
        /\ UNCHANGED <<storeMsgs, msgsDirty, msgSubs, isLoading>>
  /\ UNCHANGED <<authVars, chats, activeChatId, messages, input, storeChats, nextChatId,
                 chatsDirty, creating, deletes, deletesStarted, lastSend>>

\* line 274 settles; the finally block (line 276) runs either way
ErrorMessageSettled(s) ==
  /\ sends[s].pc = "addError"
  /\ isLoading' = FALSE
  /\ \/ /\ AddMessage(s, Msg("model", sends[s].out, s))
        /\ sends' = [sends EXCEPT ![s].pc = "done"]
        /\ UNCHANGED failures
     \/ /\ CanFail
        /\ failures' = failures + 1
        /\ sends' = [sends EXCEPT ![s].pc = "rejected"]
        /\ UNCHANGED <<storeMsgs, msgsDirty, msgSubs>>
  /\ UNCHANGED <<authVars, chats, activeChatId, messages, input, storeChats, nextChatId,
                 chatsDirty, creating, deletes, deletesStarted, lastSend>>

\* ------------------------------------------------------------------ Next
Identity ==
  \/ AuthStateChanged
  \/ SignInSettled
  \/ SignInResume
  \/ AuthUserNotified

Threads ==
  \/ NewChatClick
  \/ NewChatSettled
  \/ ChatsSnapshot
  \/ SelectChat
  \/ MessagesSnapshot
  \/ HandleDeleteChat
  \/ \E d \in deletes : DeleteSettled(d)

Pipeline(limit, responses) ==
  \/ SetInput
  \/ HandleSendMessage(limit)
  \/ \E s \in 1..Len(sends) : UserMessageSettled(s)
  \/ \E s \in 1..Len(sends) : ResponseArrived(s, responses)
  \/ \E s \in 1..Len(sends) : ModelMessageSettled(s)
  \/ \E s \in 1..Len(sends) : ErrorMessageSettled(s)

\* one send per behaviour, every response
Next == Identity \/ Threads \/ Pipeline(MaxSends, Responses)

Spec == Init /\ [][Next]_vars

\* several sends per behaviour, one response
NextRace == Identity \/ Threads \/ Pipeline(MaxRacingSends, RacingResponses)

SpecRace == Init /\ [][NextRace]_vars

\* every addDoc of handleNewChat settles and every pending snapshot of the
\* thread list is delivered
FairSpec == Spec /\ WF_vars(NewChatSettled) /\ WF_vars(ChatsSnapshot)


\* ---------------------------------------------------------------- claims
SendIds == 1..Len(sends)
InFlightSends == { s \in SendIds : InFlight(sends[s]) }

\* C1: single-flight -- in every reachable state at most one accepted send has
\* not finished yet (a send invoked while another is in flight is rejected).
C1_SingleFlight == Cardinality(InFlightSends) <= 1


Settled(s) == sends[s].pc \in {"done", "rejected"}

\* the entries of the thread's persisted log that send s wrote
Entries(s) == SelectSeq(storeMsgs[sends[s].chat], LAMBDA m : m.sid = s)

\* what send s wrote to any other thread
StrayEntries(s) ==
  { c \in ChatIds \ {sends[s].chat} :
      \E i \in 1..Len(storeMsgs[c]) : storeMsgs[c][i].sid = s }

\* C2: every accepted send marks the pipeline idle again whatever the outcome of
\* its steps -- once no send and no thread creation is in flight, isLoading is false.
C2_IdleAfterSend ==
  (sends # <<>> /\ InFlightSends = {} /\ creating = 0) => ~isLoading

\* C3: a sendMessage with empty or whitespace-only text, without a resolved identity
\* or without a selected thread is a no-op -- no send starts, nothing is written to the
\* store, no request is issued and the pipeline state does not change.
C3_RejectedSendIsNoOp ==
  [][ (HandleSendMessage(MaxSends)
         /\ (Trim(input) = <<>> \/ ~user \/ activeChatId = NoChat))
      => UNCHANGED <<sends, storeVars, isLoading, input, msgsDirty, msgSubs>> ]_vars

C3_Witness ==
  /\ lastSend = "rejected"
  /\ sends = <<>>
  /\ ~isLoading
  /\ user /\ activeChatId # NoChat
  /\ input # <<>> /\ Trim(input) = <<>>

\* C4: the user message of a send is committed before its completion request is
\* issued, so a model-role message of a send is never in a persisted log without the
\* user message of the same send before it.
C4_UserMessageFirst ==
  /\ \A s \in SendIds :
       sends[s].payload # <<>> =>
         \E i \in 1..Len(storeMsgs[sends[s].chat]) :
           storeMsgs[sends[s].chat][i] = Msg("user", sends[s].userInput, s)
  /\ \A c \in ChatIds : \A i \in 1..Len(storeMsgs[c]) :
       storeMsgs[c][i].role = "model" =>
         \E j \in 1..(i - 1) :
           storeMsgs[c][j] =
             Msg("user", sends[storeMsgs[c][i].sid].userInput, storeMsgs[c][i].sid)

C4_Witness ==
  \E s \in SendIds :
    /\ sends[s].pc = "done"
    /\ Len(Entries(s)) = 2
    /\ Entries(s)[2].role = "model"


Response(s) == sends[s].resp[1]

\* the completion request of send s failed: network error or non-success status
CompletionFailed(s) ==
  sends[s].resp # <<>> /\ Response(s).kind \in {"network", "status500"}

\* the completion request of send s was answered with a success status
CompletionOk(s) == sends[s].resp # <<>> /\ Response(s).kind = "ok"

\* candidates[0].content.parts[0].text of a response body, optional
FirstText(b) ==
  IF b.candidates = <<>> THEN <<>>
  ELSE IF b.candidates[1] = <<>> THEN <<>>
  ELSE IF b.candidates[1][1].content = <<>> THEN <<>>
  ELSE IF b.candidates[1][1].content[1].parts = <<>> THEN <<>>
  ELSE IF b.candidates[1][1].content[1].parts[1] = <<>> THEN <<>>
  ELSE b.candidates[1][1].content[1].parts[1][1].text

\* the store rejected the write of the reply of send s (line 265)
ReplyWriteRejected(s) ==
  CompletionOk(s) /\ sends[s].out = ErrorText(StoreErrorMsg)

StartsWithError(t) == t # <<>> /\ t[1] = ErrorPrefix

C7_FallbackText ==
  \A s \in SendIds :
    (/\ CompletionOk(s)
     /\ FirstText(Response(s).body) \in { <<>>, << <<>> >> }
     /\ ~ReplyWriteRejected(s)) =>
      /\ sends[s].pc \in {"addModel", "done"}
      /\ \A i \in 1..Len(Entries(s)) :
           Entries(s)[i].role = "model" => Entries(s)[i].text = FallbackText

\* C8: the payload of the completion request is the history of the selected thread
\* followed by the new user message.  Stated without regard to how late a snapshot
\* may arrive: before the new user message the payload holds only messages
\* persisted in the selected thread before the send, oldest first (also right
\* after the selection changed).
C8_PayloadFromThread ==
  \A s \in SendIds :
    sends[s].payload # <<>> =>
      \E k \in 0..Len(sends[s].prior) :
        sends[s].payload = ChatHistory(SubSeq(sends[s].prior, 1, k), sends[s].userInput)


\* the latest snapshot of the thread list was empty and nothing changed since
EmptyListPushed == user /\ isAuthReady /\ ~chatsDirty /\ chats = <<>>

\* C9: a push of an empty thread list triggers the creation of a default thread,
\* and while that creation is in flight the local thread list is bound to become
\* non-empty unless a store write is rejected in the meantime.
C9_DefaultThread ==
  /\ [][ (ChatsSnapshot /\ storeChats = <<>>) =>
           (creating' = creating + 1 /\ isLoading') ]_vars
  /\ \A f \in 0..MaxFailures :
       (EmptyListPushed /\ creating > 0 /\ failures = f)
         ~> (chats # <<>> \/ failures > f)

C9_Witness ==
  /\ EmptyListPushed
  /\ creating > 0
  /\ failures = 0
  /\ deletesStarted > 0

\* C10: when deleteDoc has removed a thread, the selection changes only if that
\* thread was the selected one when deleteThread was called; it then becomes the
\* first remaining thread of the list, or none, and in no case is the deleted id
\* left selected.
C10_SelectionAfterDelete ==
  [][ \A d \in deletes :
        (DeleteSettled(d) /\ failures' = failures) =>
          /\ activeChatId' # d.chatId
          /\ d.activeChatId # d.chatId => activeChatId' = activeChatId
          /\ d.activeChatId = d.chatId =>
               activeChatId' = IF RemoveChat(d.chats, d.chatId) = <<>> THEN NoChat
                               ELSE RemoveChat(d.chats, d.chatId)[1].id ]_vars

\* C11: at most one message listener is attached at any time and only to the
\* selected thread (switching detaches the old one first), so a push applied to
\* the local message cache is always the selected thread's log, never the log of
\* the thread selected before.
C11_NoStalePush ==
  /\ [](Cardinality(msgSubs) <= 1 /\ msgSubs \subseteq {activeChatId})
  /\ [][MessagesSnapshot => messages' = storeMsgs[activeChatId]]_vars

C11_Witness ==
  \E s \in SendIds :
    /\ activeChatId # NoChat
    /\ sends[s].chat # activeChatId
    /\ storeMsgs[sends[s].chat] # <<>>
    /\ msgSubs = {activeChatId}
    /\ ~msgsDirty
    /\ messages = storeMsgs[activeChatId]

\* C12: a push of a non-empty thread list selects the list's first thread when no
\* thread is selected and leaves the selection alone when one is.
C12_SelectionOnPush ==
  [][ (ChatsSnapshot /\ storeChats # <<>>) =>
        activeChatId' = IF activeChatId = NoChat THEN storeChats[1].id
                        ELSE activeChatId ]_vars

C12_Witness ==
  /\ ~chatsDirty
  /\ chats = storeChats
  /\ Len(chats) > 1
  /\ activeChatId = chats[2].id

\* the identity is not resolved (yet)
Unresolved == ~user \/ ~isAuthReady

\* C13: while the identity is unresolved no subscription is open (no push is pending
\* or was applied, no message listener is attached), nothing was written to the
\* store, no operation is in flight and no send was accepted -- also when
\* signInAnonymously failed and the identity stays unresolved for good.
C13_BlockedWhileUnresolved ==
  Unresolved =>
    /\ ~chatsDirty /\ chats = <<>>
    /\ msgSubs = {} /\ ~msgsDirty /\ messages = <<>>
    /\ storeChats = <<>> /\ nextChatId = 1
    /\ \A c \in ChatIds : storeMsgs[c] = <<>>
    /\ creating = 0 /\ deletes = {} /\ sends = <<>>
    /\ ~isLoading

C13_Witness ==
  /\ Unresolved
  /\ isAuthReady
  /\ Trim(input) # <<>>
  /\ lastSend = "rejected"

\* C14: after a push of the thread list is processed the local thread cache is
\* exactly the pushed list.
C14_CacheIsLatestPush == [][ChatsSnapshot => chats' = storeChats]_vars

C14_Witness ==
  /\ ~chatsDirty
  /\ nextChatId = 3
  /\ deletesStarted > 0 /\ deletes = {}
  /\ Len(storeChats) = 1
  /\ chats = storeChats

\* C15: when the addDoc of a handleNewChat call succeeds, the store's thread list
\* gains exactly one thread, with a fresh id and the title "New Chat", as its most
\* recent one, and that thread becomes the selection; every pending call does so
\* on its own.
C15_CreateThread ==
  [][ (NewChatSettled /\ failures' = failures) =>
        /\ storeChats' = <<[id |-> nextChatId, title |-> NewChatTitle]>> \o storeChats
        /\ \A i \in 1..Len(storeChats) : storeChats[i].id # nextChatId
        /\ activeChatId' = nextChatId
        /\ creating' = creating - 1 ]_vars

\* one of two concurrent handleNewChat calls has created its thread
C15_Witness ==
  /\ creating = 1
  /\ ~isLoading
  /\ sends = <<>>
  /\ failures = 0
  /\ Len(storeChats) = 1
  /\ activeChatId = storeChats[1].id

\* C16: no operation ends in a rejection nobody handles -- the promise of the
\* authentication listener is never rejected by signInAnonymously and the promise
\* of no handleSendMessage call is rejected by one of its store writes.
C16_NoUnhandledRejection ==
  /\ authPc # "failed"
  /\ \A s \in SendIds : sends[s].pc # "rejected"

\* C17: no message of any persisted log has empty text.
C17_NoEmptyText ==
  \A c \in ChatIds : \A i \in 1..Len(storeMsgs[c]) : storeMsgs[c][i].text # <<>>

\* C18: the local message cache holds only messages of the selected thread and is
\* empty when no thread is selected.
C18_CacheOfSelectedThread ==
  /\ activeChatId = NoChat => messages = <<>>
  /\ \A i \in 1..Len(messages) : sends[messages[i].sid].chat = activeChatId

\* C19: while no thread create or delete is in flight, the selection is none or
\* the id of a thread of the store's thread list.
C19_SelectionInStore ==
  (creating = 0 /\ deletes = {}) =>
    \/ activeChatId = NoChat
    \/ \E i \in 1..Len(storeChats) : storeChats[i].id = activeChatId

\* the threads whose persisted log holds a message written by send s
ThreadsWrittenBy(s) ==
  { c \in ChatIds : \E i \in 1..Len(storeMsgs[c]) : storeMsgs[c][i].sid = s }

\* C20: the messages a send writes all go to one thread, the one selected when
\* the send was called, whatever the selection is when the reply or error message
\* is written.
C20_ReplyInSameThread ==
  \A s \in SendIds :
    /\ Cardinality(ThreadsWrittenBy(s)) <= 1
    /\ ThreadsWrittenBy(s) \subseteq {sends[s].chat}

\* a send has written its two messages and another thread is selected
C20_Witness ==
  \E s \in SendIds :
    /\ sends[s].pc = "done"
    /\ Len(storeMsgs[sends[s].chat]) = 2
    /\ storeMsgs[sends[s].chat][1] = Msg("user", sends[s].userInput, s)
    /\ storeMsgs[sends[s].chat][2].role = "model"
    /\ activeChatId \in ChatIds \ {sends[s].chat}
    /\ storeMsgs[activeChatId] = <<>>

====
